---- MODULE Spec2Model ----
(***************************************************************************)
(* A model of edge_router.py: the conversion of a board-outline Gerber     *)
(* into a routing job.  Coordinates are integers counting multiples of     *)
(* TOLERANCE (1/64 mm), the grid on which Point quantizes.                  *)
(***************************************************************************)
EXTENDS Integers, Sequences, FiniteSets, TLC

VARIABLES
    pc,                     \* position in the program
    console,                \* what was printed
    edges,                  \* __main__: edges (the extractor's output); the edges parameter
    linked_edges,           \* create_path: the growing chain
    unlinked_edges,         \* create_path / __main__: the pool
    last_remaining_edges,   \* create_path: pool length at the last pass
    it,                     \* index of the list iterator of the running for loop
    paths,                  \* __main__: completed loops
    main_last_remaining,    \* __main__: last_remaining_edges of the driver loop
    polygons,               \* __main__: polygons, in the order of paths
    sorted_polygons,        \* __main__: sorted_polygons (zipped with levels after line 426)
    levels,                 \* __main__: levels
    tool,                   \* args.tool, in grid units
    offset_calls,           \* the calls of offset_polygon made so far
    output,                 \* __main__: output, a list of G-code records
    commands,               \* extract_edges: commands
    edge_list,              \* extract_edges: edges, the list being built
    cutting,                \* extract_edges: cutting
    current_p,              \* extract_edges: current_p
    raised,                 \* the exception that ended the run, or "none"
    entry,                  \* __main__: entry
    closest_i,              \* find_closest_edge: closest_i (0 is None)
    closest_dist,           \* find_closest_edge: closest_dist, squared
    arc,                    \* approximate_arc: arc
    num_segments,           \* approximate_arc: num_segments
    start_angle,            \* approximate_arc: start_angle, in eighths of a turn
    end_angle,              \* approximate_arc: end_angle, in eighths of a turn
    angles,                 \* approximate_arc: angles
    points,                 \* approximate_arc: points
    lines                   \* approximate_arc: the list it returns

linkVars == <<linked_edges, unlinked_edges, last_remaining_edges, paths, main_last_remaining>>
nestVars == <<polygons, sorted_polygons, levels, tool, offset_calls>>

extractVars == <<commands, edge_list, cutting, current_p, raised>>
entryVars == <<entry, closest_i, closest_dist>>
arcVars == <<arc, num_segments, start_angle, end_angle, angles, points, lines>>

vars == <<pc, console, edges, it, output, linkVars, nestVars, extractVars, entryVars, arcVars>>

-----------------------------------------------------------------------------
(* Bounds *)

NumLinkPts == 3
MaxEdges == 3
MaxCycleEdges == 4
MaxCoord == 6
MaxPolys == 3
MaxTool == 2
MaxCommands == 2
NumEntryPts == 4
MaxLoopEdges == 4
MaxSegments == 4

-----------------------------------------------------------------------------
(* Sequence helpers: Python list operations *)

\* list[1:] and friends: the elements from position a to position b (1-based)
Slice(s, a, b) == [k \in 1..(IF b >= a THEN b - a + 1 ELSE 0) |-> s[a + k - 1]]

\* list.insert(0, x)
InsertFront(s, x) == <<x>> \o s

\* the list without the element at (1-based) position i
RemoveAt(s, i) == Slice(s, 1, i - 1) \o Slice(s, i + 1, Len(s))

\* a wrong list.remove: drops the head of the list, whatever x is
ListRemoveHead(s, x) == Tail(s)

\* list.remove(x): drops the first element equal to x.  Line and Arc define no
\* __eq__, so equality is object identity, carried here by the field id.
FirstIndexOf(s, x) == CHOOSE i \in 1..Len(s) : s[i].id = x.id /\ \A j \in 1..(i - 1) : s[j].id # x.id
ListRemove(s, x) == RemoveAt(s, FirstIndexOf(s, x))

-----------------------------------------------------------------------------
(* Data model *)

\* Point.__eq__
PointEq(p, q) == p[1] = q[1] /\ p[2] = q[2]

\* class Line, class Arc.  id is the identity of the Python object an edge of the
\* input is; a reversed copy keeps the id of the edge it stands for.
Line(id, start, end) == [id |-> id, kind |-> "Line", start |-> start, end |-> end]
Arc(id, start, end, center, clockwise) ==
    [id |-> id, kind |-> "Arc", start |-> start, end |-> end,
     center |-> center, clockwise |-> clockwise]

\* a wrong reversal: the edge is attached as drawn
NotReversed(edge) == edge

\* the reversed copy create_path builds
ReversedEdge(edge) ==
    IF edge.kind = "Line"
    THEN Line(edge.id, edge.end, edge.start)
    ELSE Arc(edge.id, edge.end, edge.start, edge.center, ~edge.clockwise)

-----------------------------------------------------------------------------
(* create_path: the four attachment rules, in the order the code tries them *)

\* wrong rules: prepend compares the far end of the first edge; append-reversed
\* is never tried
RulePrependFarEnd(chain, edge) == PointEq(chain[1].end, edge.end)
RuleAppendReversedNever(chain, edge) == FALSE
RulePrependReversedNever(chain, edge) == FALSE

RuleAppend(chain, edge) == PointEq(chain[Len(chain)].end, edge.start)
RulePrepend(chain, edge) == PointEq(chain[1].start, edge.end)
RulePrependReversed(chain, edge) == PointEq(chain[1].start, edge.start)
RuleAppendReversed(chain, edge) == PointEq(chain[Len(chain)].end, edge.end)

\* for edge in unlinked_edges: the element the iterator yields next, if any
ForHasNext == pc = "for" /\ it < Len(unlinked_edges)
ForEdge == unlinked_edges[it + 1]

CreatePathVarsUnchanged == UNCHANGED <<edges, paths, main_last_remaining, output, nestVars, extractVars, entryVars, arcVars>>

\* lines 157-159; called with edges first, with the returned pool afterwards
CreatePathBegin ==
    /\ pc \in {"first_call", "next_call"}
    /\ LET arg == IF pc = "first_call" THEN edges ELSE unlinked_edges
       IN /\ linked_edges' = <<arg[1]>>
          /\ unlinked_edges' = Tail(arg)
    /\ last_remaining_edges' = 0
    /\ it' = 0
    /\ pc' = "while"
    /\ UNCHANGED console
    /\ CreatePathVarsUnchanged

\* lines 160-162: another pass over the pool
WhileEnter ==
    /\ pc = "while"
    /\ last_remaining_edges # Len(unlinked_edges)
    /\ last_remaining_edges' = Len(unlinked_edges)
    /\ it' = 0
    /\ pc' = "for"
    /\ UNCHANGED <<linked_edges, unlinked_edges, console>>
    /\ CreatePathVarsUnchanged

\* line 160: the last pass attached nothing
WhileExit ==
    /\ pc = "while"
    /\ last_remaining_edges = Len(unlinked_edges)
    /\ pc' = "closed_check"
    /\ UNCHANGED <<linked_edges, unlinked_edges, last_remaining_edges, it, console>>
    /\ CreatePathVarsUnchanged

\* What one iteration of the for loop leaves: the list iterator has advanced by
\* one, whatever was removed from the list it walks.
Attach(chain) ==
    /\ linked_edges' = chain
    /\ unlinked_edges' = ListRemove(unlinked_edges, ForEdge)
    /\ it' = it + 1
    /\ pc' = "for"
    /\ UNCHANGED <<last_remaining_edges, console>>
    /\ CreatePathVarsUnchanged

\* lines 163-167
AppendEdge ==
    /\ ForHasNext
    /\ RuleAppend(linked_edges, ForEdge)
    /\ Attach(Append(linked_edges, ForEdge))

\* lines 168-172
PrependEdge ==
    /\ ForHasNext
    /\ ~RuleAppend(linked_edges, ForEdge)
    /\ RulePrepend(linked_edges, ForEdge)
    /\ Attach(InsertFront(linked_edges, ForEdge))

\* lines 173-182
PrependReversedEdge ==
    /\ ForHasNext
    /\ ~RuleAppend(linked_edges, ForEdge)
    /\ ~RulePrepend(linked_edges, ForEdge)
    /\ RulePrependReversed(linked_edges, ForEdge)
    /\ Attach(InsertFront(linked_edges, ReversedEdge(ForEdge)))

\* lines 183-192
AppendReversedEdge ==
    /\ ForHasNext
    /\ ~RuleAppend(linked_edges, ForEdge)
    /\ ~RulePrepend(linked_edges, ForEdge)
    /\ ~RulePrependReversed(linked_edges, ForEdge)
    /\ RuleAppendReversed(linked_edges, ForEdge)
    /\ Attach(Append(linked_edges, ReversedEdge(ForEdge)))

\* line 193
NotConnected ==
    /\ ForHasNext
    /\ ~RuleAppend(linked_edges, ForEdge)
    /\ ~RulePrepend(linked_edges, ForEdge)
    /\ ~RulePrependReversed(linked_edges, ForEdge)
    /\ ~RuleAppendReversed(linked_edges, ForEdge)
    /\ it' = it + 1
    /\ UNCHANGED <<pc, linked_edges, unlinked_edges, last_remaining_edges, console>>
    /\ CreatePathVarsUnchanged

\* line 162: the iterator is exhausted
ForEnd ==
    /\ pc = "for"
    /\ it >= Len(unlinked_edges)
    /\ pc' = "while"
    /\ UNCHANGED <<linked_edges, unlinked_edges, last_remaining_edges, it, console>>
    /\ CreatePathVarsUnchanged

\* loop closure, line 195
IsClosed(chain) == PointEq(chain[1].start, chain[Len(chain)].end)

\* lines 195-199 and the caller's paths.append(path)
ReturnClosed ==
    /\ pc = "closed_check"
    /\ IsClosed(linked_edges)
    /\ paths' = Append(paths, linked_edges)
    /\ linked_edges' = <<>>
    /\ pc' = "main_while"
    /\ UNCHANGED <<edges, unlinked_edges, last_remaining_edges, it,
                   main_last_remaining, console, output, nestVars, extractVars, entryVars, arcVars>>

ReturnNotClosed ==
    /\ pc = "closed_check"
    /\ ~IsClosed(linked_edges)
    /\ console' = Append(console, "Warning: path is not closed")
    /\ paths' = Append(paths, linked_edges)
    /\ linked_edges' = <<>>
    /\ pc' = "main_while"
    /\ UNCHANGED <<edges, unlinked_edges, last_remaining_edges, it,
                   main_last_remaining, output, nestVars, extractVars, entryVars, arcVars>>

\* lines 395-396
MainWhileEnter ==
    /\ pc = "main_while"
    /\ Len(unlinked_edges) > 0
    /\ Len(unlinked_edges) # main_last_remaining
    /\ main_last_remaining' = Len(unlinked_edges)
    /\ pc' = "next_call"
    /\ UNCHANGED <<edges, linked_edges, unlinked_edges, last_remaining_edges, it,
                   paths, console, output, nestVars, extractVars, entryVars, arcVars>>

\* line 395: the driver loop ends
MainWhileExit ==
    /\ pc = "main_while"
    /\ ~(Len(unlinked_edges) > 0 /\ Len(unlinked_edges) # main_last_remaining)
    /\ pc' = "linked"
    /\ UNCHANGED <<edges, linked_edges, unlinked_edges, last_remaining_edges, it,
                   paths, main_last_remaining, console, output, nestVars, extractVars, entryVars, arcVars>>

LinkNext ==
    \/ CreatePathBegin
    \/ WhileEnter
    \/ WhileExit
    \/ AppendEdge
    \/ PrependEdge
    \/ PrependReversedEdge
    \/ AppendReversedEdge
    \/ NotConnected
    \/ ForEnd
    \/ ReturnClosed
    \/ ReturnNotClosed
    \/ MainWhileEnter
    \/ MainWhileExit

-----------------------------------------------------------------------------
(* Inputs of the linker *)

\* the points the input edges join
PointNo(i) == <<i % 2, i \div 2>>
LinkPoints == {PointNo(i) : i \in 0..(NumLinkPts - 1)}
ArcCenter == <<1, 1>>

\* edge shapes: a straight cut between two neighbouring points of the ring
\* 0, 1, ..., NumLinkPts-1 in either direction, an arc between the first two
\* points, and a full circle through the last one
EdgeShapes ==
    {[kind |-> "Line", start |-> PointNo(i), end |-> PointNo((i + 1) % NumLinkPts)] :
        i \in 0..(NumLinkPts - 1)}
    \cup {[kind |-> "Line", start |-> PointNo((i + 1) % NumLinkPts), end |-> PointNo(i)] :
        i \in 0..(NumLinkPts - 1)}
    \cup {[kind |-> "Arc", start |-> PointNo(0), end |-> PointNo(1),
           center |-> ArcCenter, clockwise |-> TRUE],
          [kind |-> "Arc", start |-> PointNo(NumLinkPts - 1), end |-> PointNo(NumLinkPts - 1),
           center |-> ArcCenter, clockwise |-> FALSE]}

MakeEdge(i, shape) ==
    IF shape.kind = "Line"
    THEN Line(i, shape.start, shape.end)
    ELSE Arc(i, shape.start, shape.end, shape.center, shape.clockwise)

\* the variables of the stages that are not running
LinkIdle ==
    /\ linked_edges = <<>>
    /\ unlinked_edges = <<>>
    /\ last_remaining_edges = 0
    /\ paths = <<>>
    /\ main_last_remaining = 0

NestIdle ==
    /\ polygons = <<>>
    /\ sorted_polygons = <<>>
    /\ levels = <<>>
    /\ tool = 0
    /\ offset_calls = <<>>

ExtractIdle ==
    /\ commands = <<>>
    /\ edge_list = <<>>
    /\ cutting = FALSE
    /\ current_p = <<0, 0>>
    /\ raised = "none"

ArcIdle ==
    /\ arc = <<>>
    /\ num_segments = 0
    /\ start_angle = 0
    /\ end_angle = 0
    /\ angles = <<>>
    /\ points = <<>>
    /\ lines = <<>>

EntryIdle ==
    /\ entry = <<0, 0>>
    /\ closest_i = 0
    /\ closest_dist = 0

LinkInitRest ==
    /\ pc = "first_call"
    /\ LinkIdle
    /\ it = 0
    /\ console = <<>>
    /\ output = <<>>
    /\ NestIdle
    /\ ExtractIdle
    /\ EntryIdle
    /\ ArcIdle

\* Inputs that are unions of vertex-disjoint simple closed cycles.  A cycle of one
\* or two edges is drawn with arcs (a circle, two half circles), a longer one
\* with straight cuts.  CycleLengths are the ways to split n edges into cycles.
RECURSIVE SumSeq(_)
SumSeq(s) == IF s = <<>> THEN 0 ELSE s[1] + SumSeq(Tail(s))

CycleLengths(n) ==
    UNION {{l \in [1..k -> 1..n] :
                /\ SumSeq(l) = n
                /\ \A j \in 1..(k - 1) : l[j] >= l[j + 1]} : k \in 1..n}

\* the cycle (index into lens) that holds the m-th edge, and its position there
CycleIndex(lens, m) ==
    CHOOSE j \in 1..Len(lens) :
        SumSeq(Slice(lens, 1, j - 1)) < m /\ m <= SumSeq(Slice(lens, 1, j))

CycleShape(lens, m) ==
    LET j == CycleIndex(lens, m)
        off == SumSeq(Slice(lens, 1, j - 1))
        from == PointNo(m - 1)
        to == PointNo(off + ((m - off) % lens[j]))
    IN IF lens[j] <= 2
       THEN [kind |-> "Arc", start |-> from, end |-> to,
             center |-> ArcCenter, clockwise |-> TRUE]
       ELSE [kind |-> "Line", start |-> from, end |-> to]

Perms(n) == {f \in [1..n -> 1..n] : \A i, j \in 1..n : f[i] = f[j] => i = j}

\* any list of edge shapes
FreeInput ==
    \E n \in 1..MaxEdges : \E f \in [1..n -> EdgeShapes] :
        edges = [i \in 1..n |-> MakeEdge(i, f[i])]

\* the edges of disjoint cycles, shuffled, some of them turned round
CycleInput ==
    \E n \in 1..MaxCycleEdges : \E lens \in CycleLengths(n) :
        \E perm \in Perms(n) : \E flip \in [1..n -> BOOLEAN] :
            edges = [i \in 1..n |->
                        LET e == MakeEdge(i, CycleShape(lens, perm[i]))
                        IN IF flip[i] THEN ReversedEdge(e) ELSE e]

LinkInit ==
    /\ FreeInput \/ CycleInput
    /\ LinkInitRest

SpecLink == LinkInit /\ [][LinkNext]_vars

\* The interpreter keeps executing the statement it is at. The step from the
\* closure check of an open chain includes the operator's answer to
\* input("Press Enter to continue..."), line 197.
SpecLinkFair == SpecLink /\ WF_vars(LinkNext)

-----------------------------------------------------------------------------
(* Point quantization and arithmetic *)

\* Python's round() of h/2: to the nearest integer, a tie to the even one
RoundHalfEven(h) ==
    IF h % 2 = 0 THEN h \div 2
    ELSE LET f == (h - 1) \div 2 IN IF f % 2 = 0 THEN f ELSE f + 1

\* Point(x, y) for coordinates given in halves of the grid unit: both are rounded
\* onto the grid
Point(hx, hy) == <<RoundHalfEven(hx), RoundHalfEven(hy)>>

\* Point.__sub__ of two points on the grid
PointSub(p, q) == Point(2 * (p[1] - q[1]), 2 * (p[2] - q[2]))

-----------------------------------------------------------------------------
(* generate_route_gcode *)

\* argparse defaults, in hundredths of a millimetre
ArgsRetract == 2000
ArgsStart == 100
ArgsEnd == 0 - 165

\* lines 335-337
RoutePreamble(es) ==
    << [g |-> "G00", Z |-> ArgsRetract],
       [g |-> "G00", X |-> es[1].start[1], Y |-> es[1].start[2]],
       [g |-> "G00", Z |-> ArgsStart],
       [g |-> "G01", Z |-> ArgsEnd] >>

\* a wrong center offset: taken from the end of the arc
CenterOffsetFromEnd(edge) == PointSub(edge.center, edge.end)

\* lines 343, 346
CenterOffset(edge) == PointSub(edge.center, edge.start)

\* lines 340-347: the record of one edge
EdgeRecord(edge) ==
    IF edge.kind = "Line"
    THEN [g |-> "G01", X |-> edge.end[1], Y |-> edge.end[2]]
    ELSE [g |-> IF edge.clockwise THEN "G02" ELSE "G03",
          X |-> edge.end[1], Y |-> edge.end[2],
          I |-> CenterOffset(edge)[1], J |-> CenterOffset(edge)[2]]

\* line 351
RouteRetract == <<[g |-> "G00", Z |-> ArgsRetract]>>

\* the whole function
GenerateRouteGcode(es) ==
    RoutePreamble(es) \o [k \in 1..Len(es) |-> EdgeRecord(es[k])] \o RouteRetract

\* generate_header, generate_footer: one record each
GenerateHeader == <<[g |-> "header"]>>
GenerateFooter == <<[g |-> "footer"]>>

-----------------------------------------------------------------------------
(* list.sort of CPython, for lists shorter than 64: the first run is found and *)
(* the rest is inserted by binary search.  A list is a sequence of item        *)
(* numbers; lt[x][y] is the result of key(x) < key(y).                         *)

Reverse(a) == [k \in 1..Len(a) |-> a[Len(a) + 1 - k]]

\* count_run: the length of the run a[1..k] extends to
RECURSIVE RunEnd(_, _, _, _)
RunEnd(a, lt, k, descending) ==
    IF k = Len(a) THEN k
    ELSE IF lt[a[k + 1]][a[k]] = descending THEN RunEnd(a, lt, k + 1, descending)
    ELSE k

\* binarysort, the search: l and r count from 0 as in the C code
RECURSIVE Bisect(_, _, _, _, _)
Bisect(a, lt, pivot, l, r) ==
    LET p == l + ((r - l) \div 2)
        l2 == IF lt[pivot][a[p + 1]] THEN l ELSE p + 1
        r2 == IF lt[pivot][a[p + 1]] THEN p ELSE r
    IN IF l2 < r2 THEN Bisect(a, lt, pivot, l2, r2) ELSE l2

\* binarysort: a[1..start] is sorted, the rest is inserted one by one
RECURSIVE BinarySort(_, _, _)
BinarySort(a, lt, start) ==
    IF start >= Len(a) THEN a
    ELSE LET pivot == a[start + 1]
             l == Bisect(a, lt, pivot, 0, start)
         IN BinarySort(Slice(a, 1, l) \o <<pivot>> \o Slice(a, l + 1, start)
                          \o Slice(a, start + 2, Len(a)),
                       lt, start + 1)

ListSortAscending(a, lt) ==
    IF Len(a) < 2 THEN a
    ELSE LET descending == lt[a[2]][a[1]]
             k == RunEnd(a, lt, 2, descending)
             b == IF descending THEN Reverse(Slice(a, 1, k)) \o Slice(a, k + 1, Len(a)) ELSE a
         IN BinarySort(b, lt, k)

\* sorted(list, key=..., reverse=...): with reverse the list is reversed, sorted
\* and reversed again
PySorted(n, lt, reverse) ==
    LET a == [k \in 1..n |-> k]
    IN IF reverse THEN Reverse(ListSortAscending(Reverse(a), lt)) ELSE ListSortAscending(a, lt)

-----------------------------------------------------------------------------
(* Nesting levels, offsets and emission.  A polygon is the square with the    *)
(* corners (lo, lo) and (hi, hi), in grid units.                               *)

\* shapely: a.within(b), a.contains(b)
Within(a, b) == b.lo <= a.lo /\ a.hi <= b.hi
Contains(a, b) == Within(b, a)

\* class Within: the key's __lt__
WithinLt(ps) == [x \in 1..Len(ps) |-> [y \in 1..Len(ps) |-> Within(ps[x], ps[y])]]

\* line 427: key=lambda x: x[1]
LevelLt(zs) == [x \in 1..Len(zs) |-> [y \in 1..Len(zs) |-> zs[x].level < zs[y].level]]

\* line 415
SortedPolygons(ps) ==
    LET order == PySorted(Len(ps), WithinLt(ps), TRUE)
    IN [k \in 1..Len(ps) |-> ps[order[k]]]

\* lines 419-423
LevelsOf(sp) ==
    [i \in 1..Len(sp) |-> Cardinality({j \in 1..(i - 1) : Contains(sp[j], sp[i])})]

\* lines 426-428
SortedByLevel(sp, lv) ==
    LET zs == [k \in 1..Len(sp) |-> [polygon |-> sp[k], level |-> lv[k]]]
        order == PySorted(Len(sp), LevelLt(zs), TRUE)
    IN [k \in 1..Len(sp) |-> zs[order[k]]]

\* a wrong parity: odd levels outward, even levels inward
DirectionInverted(level) == IF level % 2 = 1 THEN 1 ELSE 0 - 1

\* line 431
Direction(level) == IF level % 2 = 0 THEN 1 ELSE 0 - 1

\* polygon.buffer(distance): the square grown by distance on every side, its
\* corners in halves of the grid unit (corners are kept square here); distance is
\* given doubled.  The result is empty when nothing of the square is left.
Buffer(polygon, distance2) ==
    [lo2 |-> 2 * polygon.lo - distance2,
     hi2 |-> 2 * polygon.hi + distance2,
     is_empty |-> 2 * polygon.hi + distance2 <= 2 * polygon.lo - distance2]

\* line 221: offset_polygon raises ValueError
OffsetFails(polygon, distance2) == Buffer(polygon, distance2).is_empty

\* polygon.exterior.coords of a buffered square
ExteriorCoords(b) ==
    << <<b.lo2, b.lo2>>, <<b.hi2, b.lo2>>, <<b.hi2, b.hi2>>, <<b.lo2, b.hi2>>, <<b.lo2, b.lo2>> >>

\* polygon_to_path
PolygonToPath(b) ==
    LET c == ExteriorCoords(b)
    IN [i \in 1..(Len(c) - 1) |->
           Line(i, Point(c[i][1], c[i][2]), Point(c[i + 1][1], c[i + 1][2]))]

\* line 415
SortPolygons ==
    /\ pc = "sort_polygons"
    /\ sorted_polygons' = SortedPolygons(polygons)
    /\ pc' = "add_levels"
    /\ UNCHANGED <<polygons, levels, tool, offset_calls, output, it, console, edges, linkVars, extractVars, entryVars, arcVars>>

\* lines 419-423
AddLevels ==
    /\ pc = "add_levels"
    /\ levels' = LevelsOf(sorted_polygons)
    /\ pc' = "sort_levels"
    /\ UNCHANGED <<polygons, sorted_polygons, tool, offset_calls, output, it, console, edges,
                   linkVars, extractVars, entryVars, arcVars>>

\* lines 426-428
SortLevels ==
    /\ pc = "sort_levels"
    /\ sorted_polygons' = SortedByLevel(sorted_polygons, levels)
    /\ it' = 0
    /\ pc' = "offset_loop"
    /\ UNCHANGED <<polygons, levels, tool, offset_calls, output, console, edges, linkVars, extractVars, entryVars, arcVars>>

\* the element the loop of line 430 is at, and the distance of line 433, doubled
LoopHasNext == pc = "offset_loop" /\ it < Len(sorted_polygons)
LoopPolygon == sorted_polygons[it + 1].polygon
LoopDistance2 == Direction(sorted_polygons[it + 1].level) * tool

RecordCall ==
    offset_calls' = Append(offset_calls, [polygon |-> LoopPolygon, distance2 |-> LoopDistance2])

\* lines 430-433, 438-440: the offset succeeds and the block is emitted
EmitContour ==
    /\ LoopHasNext
    /\ ~OffsetFails(LoopPolygon, LoopDistance2)
    /\ RecordCall
    /\ output' = output \o GenerateRouteGcode(PolygonToPath(Buffer(LoopPolygon, LoopDistance2)))
    /\ it' = it + 1
    /\ UNCHANGED <<pc, polygons, sorted_polygons, levels, tool, console, edges, linkVars, extractVars, entryVars, arcVars>>

\* a wrong handler: the failure ends the loop, the remaining contours are dropped
SkipContourAndRest ==
    /\ LoopHasNext
    /\ OffsetFails(LoopPolygon, LoopDistance2)
    /\ RecordCall
    /\ console' = Append(console, "Warning:  offsetting polygon failed")
    /\ it' = Len(sorted_polygons)
    /\ UNCHANGED <<pc, polygons, sorted_polygons, levels, tool, output, edges, linkVars, extractVars, entryVars, arcVars>>

\* lines 430-437: the offset fails and the contour is skipped
SkipContour ==
    /\ LoopHasNext
    /\ OffsetFails(LoopPolygon, LoopDistance2)
    /\ RecordCall
    /\ console' = Append(console, "Warning:  offsetting polygon failed")
    /\ it' = it + 1
    /\ UNCHANGED <<pc, polygons, sorted_polygons, levels, tool, output, edges, linkVars, extractVars, entryVars, arcVars>>

\* lines 442-447
WriteOutput ==
    /\ pc = "offset_loop"
    /\ it >= Len(sorted_polygons)
    /\ output' = output \o GenerateFooter
    /\ console' = Append(console, "GCode generated successfully")
    /\ pc' = "done"
    /\ UNCHANGED <<polygons, sorted_polygons, levels, tool, offset_calls, it, edges, linkVars, extractVars, entryVars, arcVars>>

NestNext ==
    \/ SortPolygons
    \/ AddLevels
    \/ SortLevels
    \/ EmitContour
    \/ SkipContour
    \/ WriteOutput

\* the squares of the grid
Squares == {sq \in [lo : 0..MaxCoord, hi : 0..MaxCoord] : sq.lo < sq.hi}

\* no two contours share a boundary point
Apart(a, b) ==
    \/ a.lo < b.lo /\ b.hi < a.hi
    \/ b.lo < a.lo /\ a.hi < b.hi
    \/ a.hi < b.lo
    \/ b.hi < a.lo

\* the contours of a board: squares that are nested or disjoint, in any order
NestInit ==
    /\ \E n \in 1..MaxPolys : \E f \in [1..n -> Squares] :
          /\ \A i, j \in 1..n : i # j => Apart(f[i], f[j])
          /\ polygons = [i \in 1..n |-> [id |-> i, lo |-> f[i].lo, hi |-> f[i].hi]]
    /\ tool \in 1..MaxTool
    /\ sorted_polygons = <<>>
    /\ levels = <<>>
    /\ offset_calls = <<>>
    /\ output = GenerateHeader
    /\ pc = "sort_polygons"
    /\ it = 0
    /\ console = <<>>
    /\ edges = <<>>
    /\ LinkIdle
    /\ ExtractIdle
    /\ EntryIdle
    /\ ArcIdle

SpecNest == NestInit /\ [][NestNext]_vars

-----------------------------------------------------------------------------
(* extract_edges.  A command is a record with the field code and some of the   *)
(* fields X, Y, I, J, D; its coordinates are in halves of the grid unit.       *)

\* Point.__add__ of two points on the grid
PointAdd(p, q) == Point(2 * (p[1] + q[1]), 2 * (p[2] + q[2]))

ExtractHasNext == pc = "extract" /\ it < Len(commands)
Command == commands[it + 1]
HasFields(cmd) == {"X", "Y", "D"} \subseteq DOMAIN cmd

ExtractFrame == UNCHANGED <<console, edges, output, linkVars, nestVars, entryVars, arcVars>>

\* the run ends with an exception
Raise(exception) ==
    /\ raised' = exception
    /\ pc' = "failed"
    /\ UNCHANGED <<commands, edge_list, cutting, current_p, it>>
    /\ ExtractFrame

\* lines 123-125
ExtractAssert ==
    /\ ExtractHasNext
    /\ ~HasFields(Command)
    /\ Raise("AssertionError")

\* a wrong handler: a command with an unknown pen code is passed over
ExtractUnknownPenIgnored ==
    /\ ExtractHasNext
    /\ HasFields(Command)
    /\ Command.D \notin {"01", "02"}
    /\ it' = it + 1
    /\ UNCHANGED <<pc, commands, edge_list, cutting, current_p, raised>>
    /\ ExtractFrame

\* lines 127-132
ExtractUnknownPen ==
    /\ ExtractHasNext
    /\ HasFields(Command)
    /\ Command.D \notin {"01", "02"}
    /\ Raise("ValueError")

\* lines 129-130, 134-136
ExtractMove ==
    /\ ExtractHasNext
    /\ HasFields(Command)
    /\ Command.D = "02"
    /\ cutting' = FALSE
    /\ current_p' = Point(Command.X, Command.Y)
    /\ it' = it + 1
    /\ UNCHANGED <<pc, commands, edge_list, raised>>
    /\ ExtractFrame

Cuts(codes) ==
    /\ ExtractHasNext
    /\ HasFields(Command)
    /\ Command.D = "01"
    /\ Command.code \in codes

\* what a cut leaves, lines 127-128 and 138-139
Cut(edge) ==
    /\ cutting' = TRUE
    /\ current_p' = Point(Command.X, Command.Y)
    /\ edge_list' = Append(edge_list, edge)
    /\ it' = it + 1
    /\ UNCHANGED <<pc, commands, raised>>
    /\ ExtractFrame

ArcCenterOf(cmd) == PointAdd(current_p, Point(cmd.I, cmd.J))

\* lines 141-142
ExtractLine ==
    /\ Cuts({"G01"})
    /\ Cut(Line(Len(edge_list) + 1, current_p, Point(Command.X, Command.Y)))

\* lines 143-146
ExtractArcCW ==
    /\ Cuts({"G02"})
    /\ Cut(Arc(Len(edge_list) + 1, current_p, Point(Command.X, Command.Y),
               ArcCenterOf(Command), TRUE))

\* lines 147-150
ExtractArcCCW ==
    /\ Cuts({"G03"})
    /\ Cut(Arc(Len(edge_list) + 1, current_p, Point(Command.X, Command.Y),
               ArcCenterOf(Command), FALSE))

\* lines 151-152
ExtractUnknownCode ==
    /\ ExtractHasNext
    /\ HasFields(Command)
    /\ Command.D = "01"
    /\ Command.code \notin {"G01", "G02", "G03"}
    /\ Raise("ValueError")

\* lines 153 and 389
ExtractReturn ==
    /\ pc = "extract"
    /\ it >= Len(commands)
    /\ edges' = edge_list
    /\ pc' = "extracted"
    /\ UNCHANGED <<console, output, it, linkVars, nestVars, extractVars, entryVars, arcVars>>

ExtractNext ==
    \/ ExtractAssert
    \/ ExtractUnknownPen
    \/ ExtractMove
    \/ ExtractLine
    \/ ExtractArcCW
    \/ ExtractArcCCW
    \/ ExtractUnknownCode
    \/ ExtractReturn

\* the commands a decoder can hand over: any G code it has seen last, a pen code
\* or none, a target with or without its coordinates; arcs carry I and J
CodesSeen == {"G01", "G02", "G03", "G75"}
PenCodes == {"01", "02", "03"}
TargetFields == {{"X", "Y"}, {"X"}, {"Y"}}

MakeCommand(code, fields) ==
    [k \in {"code"} \cup fields \cup (IF code \in {"G02", "G03"} THEN {"I", "J"} ELSE {}) |->
        CASE k = "code" -> code
          [] k = "X" -> 3
          [] k = "Y" -> 2
          [] k = "I" -> 2
          [] k = "J" -> 0
          [] k = "D" -> "00"]

CommandSet ==
    {[c EXCEPT !.D = d] : c \in {MakeCommand(code, xy \cup {"D"}) : code \in CodesSeen, xy \in TargetFields},
                          d \in PenCodes}
    \cup {MakeCommand(code, xy) : code \in CodesSeen, xy \in TargetFields}

ExtractInit ==
    /\ \E n \in 0..MaxCommands : commands \in [1..n -> CommandSet]
    /\ edge_list = <<>>
    /\ cutting = FALSE
    /\ current_p = Point(0, 0)
    /\ raised = "none"
    /\ pc = "extract"
    /\ it = 0
    /\ edges = <<>>
    /\ console = <<>>
    /\ output = <<>>
    /\ LinkIdle
    /\ NestIdle
    /\ EntryIdle
    /\ ArcIdle

SpecExtract == ExtractInit /\ [][ExtractNext]_vars

-----------------------------------------------------------------------------
(* generate_route_gcode, statement by statement *)

RouteFrame == UNCHANGED <<console, edges, linkVars, nestVars, extractVars, entryVars, arcVars>>

\* lines 335-337
RouteBegin ==
    /\ pc = "route_begin"
    /\ output' = RoutePreamble(edges)
    /\ it' = 0
    /\ pc' = "route_loop"
    /\ RouteFrame

RouteHasNext == pc = "route_loop" /\ it < Len(edges)

RouteEdge ==
    /\ output' = Append(output, EdgeRecord(edges[it + 1]))
    /\ it' = it + 1
    /\ UNCHANGED pc
    /\ RouteFrame

\* lines 340-341
RouteLine ==
    /\ RouteHasNext
    /\ edges[it + 1].kind = "Line"
    /\ RouteEdge

\* lines 342-344
RouteArcCW ==
    /\ RouteHasNext
    /\ edges[it + 1].kind = "Arc"
    /\ edges[it + 1].clockwise
    /\ RouteEdge

\* lines 345-347
RouteArcCCW ==
    /\ RouteHasNext
    /\ edges[it + 1].kind = "Arc"
    /\ ~edges[it + 1].clockwise
    /\ RouteEdge

\* lines 351-352
RouteEnd ==
    /\ pc = "route_loop"
    /\ it >= Len(edges)
    /\ output' = output \o RouteRetract
    /\ pc' = "route_done"
    /\ UNCHANGED it
    /\ RouteFrame

RouteNext ==
    \/ RouteBegin
    \/ RouteLine
    \/ RouteArcCW
    \/ RouteArcCCW
    \/ RouteEnd

RouteInit ==
    /\ FreeInput
    /\ pc = "route_begin"
    /\ it = 0
    /\ console = <<>>
    /\ output = <<>>
    /\ LinkIdle
    /\ NestIdle
    /\ ExtractIdle
    /\ EntryIdle
    /\ ArcIdle

SpecRoute == RouteInit /\ [][RouteNext]_vars

-----------------------------------------------------------------------------
(* find_closest_edge and reorder_edges, lines 406-409 *)

\* closest_dist = float("inf")
Infinity == 0 - 1

\* abs(complex(a) - complex(b)), squared: distances compare as their squares do
DistSquared(a, b) == (a[1] - b[1]) * (a[1] - b[1]) + (a[2] - b[2]) * (a[2] - b[2])

\* a wrong comparison: a tie replaces the edge found so far
DistLessOrEqual(dist, closest) == closest = Infinity \/ dist <= closest

\* line 304: dist < closest_dist
DistLess(dist, closest) == closest = Infinity \/ dist < closest

\* line 312
ReorderEdges(es, start) == Slice(es, start + 1, Len(es)) \o Slice(es, 1, start)

EntryFrame == UNCHANGED <<console, output, entry, linkVars, nestVars, extractVars, arcVars>>

FindHasNext == pc = "find_closest" /\ it < Len(edges)
FindDist == DistSquared(edges[it + 1].start, entry)

\* lines 301-306: a closer edge
FindCloser ==
    /\ FindHasNext
    /\ DistLess(FindDist, closest_dist)
    /\ closest_i' = it
    /\ closest_dist' = FindDist
    /\ it' = it + 1
    /\ UNCHANGED <<pc, edges>>
    /\ EntryFrame

\* lines 301-304: not a closer edge
FindNotCloser ==
    /\ FindHasNext
    /\ ~DistLess(FindDist, closest_dist)
    /\ it' = it + 1
    /\ UNCHANGED <<pc, edges, closest_i, closest_dist>>
    /\ EntryFrame

\* lines 307-308 and 409
FindReturn ==
    /\ pc = "find_closest"
    /\ it >= Len(edges)
    /\ edges' = ReorderEdges(edges, closest_i)
    /\ pc' = "reordered"
    /\ UNCHANGED <<it, closest_i, closest_dist>>
    /\ EntryFrame

EntryNext ==
    \/ FindCloser
    \/ FindNotCloser
    \/ FindReturn

EntryPoints == {PointNo(i) : i \in 0..(NumEntryPts - 1)}

\* a closed loop through the given corners: a full circle, or straight cuts
LoopThrough(c) ==
    IF Len(c) = 1
    THEN <<Arc(1, c[1], c[1], ArcCenter, TRUE)>>
    ELSE [i \in 1..Len(c) |-> Line(i, c[i], c[(i % Len(c)) + 1])]

EntryInit ==
    /\ \E n \in 1..MaxLoopEdges : \E c \in [1..n -> EntryPoints] :
          /\ paths = <<LoopThrough(c)>>
          /\ edges = LoopThrough(c)
    /\ entry \in EntryPoints
    /\ closest_i = 0
    /\ closest_dist = Infinity
    /\ pc = "find_closest"
    /\ it = 0
    /\ console = <<>>
    /\ output = <<>>
    /\ linked_edges = <<>>
    /\ unlinked_edges = <<>>
    /\ last_remaining_edges = 0
    /\ main_last_remaining = 0
    /\ NestIdle
    /\ ExtractIdle
    /\ ArcIdle

SpecEntry == EntryInit /\ [][EntryNext]_vars

-----------------------------------------------------------------------------
(* approximate_arc.  Angles count eighths of a turn; the arcs of the model    *)
(* have their start and end on the eight compass directions about the         *)
(* center (or on the center), so that np.angle is exact.                      *)

FullTurn == 8
DefaultSegments == 20

Sign(x) == IF x > 0 THEN 1 ELSE IF x < 0 THEN 0 - 1 ELSE 0

\* np.angle of the complex number d[1] + d[2]j: in (-pi, pi], 0 for 0
NpAngle(d) ==
    LET x == Sign(d[1])
        y == Sign(d[2])
    IN IF y = 0 THEN (IF x < 0 THEN 4 ELSE 0)
       ELSE IF y > 0 THEN 2 - x
       ELSE x - 2

\* np.linspace(start, stop, num), endpoint included: num samples, the i-th at
\* start + i * (stop - start) / (num - 1); a single sample is start.  A sample
\* is the fraction n / d of an eighth of a turn.
Linspace(start, stop, num) ==
    LET div == num - 1
    IN IF div > 0
       THEN [i \in 1..num |-> [n |-> start * div + (i - 1) * (stop - start), d |-> div]]
       ELSE [i \in 1..num |-> [n |-> start, d |-> 1]]

\* Point(point.real, point.imag) for point = center + radius * exp(1j * angle),
\* kept in polar form: the direction is the angle within one turn
PointOnCircle(center, radius2, angle) ==
    [center |-> center, radius2 |-> radius2,
     n |-> angle.n % (FullTurn * angle.d), d |-> angle.d]

ArcFrame == UNCHANGED <<console, edges, output, linkVars, nestVars, extractVars, entryVars>>

\* lines 254-265
ApproximateArcBegin ==
    /\ pc = "approximate_arc"
    /\ points' = <<>>
    /\ start_angle' = NpAngle(<<arc.start[1] - arc.center[1], arc.start[2] - arc.center[2]>>)
    /\ end_angle' = NpAngle(<<arc.end[1] - arc.center[1], arc.end[2] - arc.center[2]>>)
    /\ pc' = "sweep"
    /\ UNCHANGED <<arc, num_segments, angles, lines, it>>
    /\ ArcFrame

\* lines 268-270
SweepCounterClockwise == ~arc.clockwise /\ end_angle < start_angle
\* lines 271-273
SweepClockwise == arc.clockwise /\ end_angle > start_angle

SweepAddTurn ==
    /\ pc = "sweep"
    /\ SweepCounterClockwise
    /\ end_angle' = end_angle + FullTurn
    /\ pc' = "linspace"
    /\ UNCHANGED <<arc, num_segments, start_angle, angles, points, lines, it>>
    /\ ArcFrame

SweepSubtractTurn ==
    /\ pc = "sweep"
    /\ SweepClockwise
    /\ end_angle' = end_angle - FullTurn
    /\ pc' = "linspace"
    /\ UNCHANGED <<arc, num_segments, start_angle, angles, points, lines, it>>
    /\ ArcFrame

SweepKept ==
    /\ pc = "sweep"
    /\ ~SweepCounterClockwise
    /\ ~SweepClockwise
    /\ pc' = "linspace"
    /\ UNCHANGED <<arc, num_segments, start_angle, end_angle, angles, points, lines, it>>
    /\ ArcFrame

\* lines 275-278
ArcLinspace ==
    /\ pc = "linspace"
    /\ angles' = Linspace(start_angle, end_angle, num_segments)
    /\ console' = Append(console, "Approximating arc")
    /\ it' = 0
    /\ pc' = "sample"
    /\ UNCHANGED <<arc, num_segments, start_angle, end_angle, points, lines>>
    /\ UNCHANGED <<edges, output, linkVars, nestVars, extractVars, entryVars>>

\* lines 279-281: for angle in angles
ArcSample ==
    /\ pc = "sample"
    /\ it < Len(angles)
    /\ points' = Append(points,
                        PointOnCircle(arc.center, DistSquared(arc.center, arc.start), angles[it + 1]))
    /\ it' = it + 1
    /\ UNCHANGED <<pc, arc, num_segments, start_angle, end_angle, angles, lines>>
    /\ ArcFrame

\* lines 284-285
ArcReturn ==
    /\ pc = "sample"
    /\ it >= Len(angles)
    /\ lines' = [i \in 1..(Len(points) - 1) |-> Line(i, points[i], points[i + 1])]
    /\ pc' = "arc_done"
    /\ UNCHANGED <<arc, num_segments, start_angle, end_angle, angles, points, it>>
    /\ ArcFrame

ArcNext ==
    \/ ApproximateArcBegin
    \/ SweepAddTurn
    \/ SweepSubtractTurn
    \/ SweepKept
    \/ ArcLinspace
    \/ ArcSample
    \/ ArcReturn

\* the arcs of the model: start and end one grid step from the center along a
\* compass direction, or on the center
Compass == {<<x, y>> : x \in {0 - 1, 0, 1}, y \in {0 - 1, 0, 1}}

\* approximate_arc(arc, num_segments), and approximate_arc(arc) as segment_path
\* calls it
ArcInit ==
    /\ pc = "approximate_arc"
    /\ \E s \in Compass : \E e \in Compass : \E cw \in BOOLEAN :
          arc = Arc(1, <<ArcCenter[1] + s[1], ArcCenter[2] + s[2]>>,
                       <<ArcCenter[1] + e[1], ArcCenter[2] + e[2]>>, ArcCenter, cw)
    /\ num_segments \in (1..MaxSegments) \union {DefaultSegments}
    /\ start_angle = 0
    /\ end_angle = 0
    /\ angles = <<>>
    /\ points = <<>>
    /\ lines = <<>>
    /\ edges = <<>>
    /\ it = 0
    /\ console = <<>>
    /\ output = <<>>
    /\ LinkIdle
    /\ NestIdle
    /\ ExtractIdle
    /\ EntryIdle

SpecArc == ArcInit /\ [][ArcNext]_vars

-----------------------------------------------------------------------------
(* Properties of the linker *)

EdgeIds == 1..Len(edges)
TouchedPoints == {edges[i].start : i \in EdgeIds} \cup {edges[i].end : i \in EdgeIds}
Degree(p) ==
    Cardinality({i \in EdgeIds : edges[i].start = p})
        + Cardinality({i \in EdgeIds : edges[i].end = p})

\* every point of the drawing is met by exactly two edge ends: the drawing is a
\* union of vertex-disjoint closed cycles
IsCycleUnion == \A p \in TouchedPoints : Degree(p) = 2

Adjacent(p, q) ==
    \E i \in EdgeIds : {edges[i].start, edges[i].end} = {p, q}

RECURSIVE Grow(_)
Grow(S) ==
    LET T == S \cup {q \in TouchedPoints : \E r \in S : Adjacent(r, q)}
    IN IF T = S THEN S ELSE Grow(T)

\* the points of the connected piece of the drawing that holds p
Component(p) == Grow({p})
Components == {Component(p) : p \in TouchedPoints}

LoopIds(loop) == {loop[k].id : k \in DOMAIN loop}

Chained(loop) ==
    \A k \in 1..(Len(loop) - 1) : loop[k].end = loop[k + 1].start

EndsMeet(loop) == loop[1].start = loop[Len(loop)].end

\* e is the input edge orig, as drawn or turned round
IsTurned(e, orig) ==
    /\ e.id = orig.id
    /\ e.kind = orig.kind
    /\ e.start = orig.end
    /\ e.end = orig.start
    /\ e.kind = "Arc" => (e.center = orig.center /\ e.clockwise = ~orig.clockwise)

AsDrawnOrTurned(e) == e = edges[e.id] \/ IsTurned(e, edges[e.id])

\* C1: a drawing that is a union of k vertex-disjoint closed cycles, in any order
\* and with any edges turned round, links into exactly k loops, each closed and
\* holding exactly the edges of one cycle, and no edge is left in the pool.
C1_CyclesBecomeLoops ==
    (pc = "linked" /\ IsCycleUnion) =>
        /\ unlinked_edges = <<>>
        /\ Len(paths) = Cardinality(Components)
        /\ \A k \in DOMAIN paths :
              /\ EndsMeet(paths[k])
              /\ Len(paths[k]) = Cardinality(LoopIds(paths[k]))
              /\ LoopIds(paths[k]) =
                    {i \in EdgeIds : edges[i].start \in Component(paths[k][1].start)}

\* two cycles, four edges, at least one of them attached turned round
C1_Witness ==
    /\ pc = "linked"
    /\ IsCycleUnion
    /\ Len(edges) = 4
    /\ Len(paths) = 2
    /\ \E k \in DOMAIN paths : \E j \in DOMAIN paths[k] :
          paths[k][j] # edges[paths[k][j].id]

RECURSIVE Flatten(_)
Flatten(ss) == IF ss = <<>> THEN <<>> ELSE ss[1] \o Flatten(Tail(ss))

\* the edges not yet taken into a chain
Pool == IF pc = "first_call" THEN edges ELSE unlinked_edges
Accounted == Flatten(paths) \o linked_edges \o Pool

\* C8: at every step the loops, the chain and the pool hold exactly the input
\* edges, each once, as drawn or turned round; at the end the pool is empty and
\* every input edge is in exactly one loop.
C8_EdgesConserved ==
    /\ Len(Accounted) = Len(edges)
    /\ \A i \in EdgeIds : \E k \in DOMAIN Accounted : Accounted[k].id = i
    /\ \A k \in DOMAIN Accounted : AsDrawnOrTurned(Accounted[k])
    /\ \A k \in DOMAIN Pool : Pool[k] = edges[Pool[k].id]
    /\ pc = "linked" =>
          /\ unlinked_edges = <<>>
          /\ linked_edges = <<>>
          /\ \A i \in EdgeIds :
                Cardinality({k \in DOMAIN paths : i \in LoopIds(paths[k])}) = 1

\* a drawing with a junction of three edge ends, linked into an open loop and more
C8_Witness ==
    /\ pc = "linked"
    /\ \E p \in TouchedPoints : Degree(p) >= 3
    /\ \E k \in DOMAIN paths : ~EndsMeet(paths[k])
    /\ Len(paths) >= 2

\* an end of the edge lies on an end of the chain
Touches(chain, edge) ==
    \/ edge.start = chain[1].start
    \/ edge.start = chain[Len(chain)].end
    \/ edge.end = chain[1].start
    \/ edge.end = chain[Len(chain)].end

\* this step of the for loop attaches the edge the iterator is at
Attaches == pc = "for" /\ Len(unlinked_edges') < Len(unlinked_edges)

\* C9 as claimed: whenever an edge is attached, no edge at an earlier position
\* of the pool matches the chain.
C9_NoEarlierMatchPassedOver ==
    [][Attaches => \A j \in 1..it : ~Touches(linked_edges, unlinked_edges[j])]_vars

\* C9 as amended: the first edge attached in a pass over the pool is the earliest
\* edge of the pool that matches the chain; an attachment does not restart the
\* scan, the iterator moves on by one position.
C9_FirstAttachmentIsEarliest ==
    [][Attaches =>
          /\ it' = it + 1
          /\ unlinked_edges' = RemoveAt(unlinked_edges, it + 1)
          /\ Touches(linked_edges, unlinked_edges[it + 1])
          /\ Len(unlinked_edges) = last_remaining_edges =>
                \A j \in 1..it : ~Touches(linked_edges, unlinked_edges[j])]_vars

\* the first attachment of a pass has just happened, past at least two edges
C9_Witness ==
    /\ pc = "for"
    /\ Len(unlinked_edges) = last_remaining_edges - 1
    /\ it >= 3

\* C10: the chain and every returned loop are contiguous, and every edge in them
\* is an input edge as drawn or turned round (an arc turned round keeps its
\* center and inverts clockwise).
C10_ChainContiguous ==
    /\ Chained(linked_edges)
    /\ \A k \in DOMAIN paths : Chained(paths[k])
    /\ \A k \in DOMAIN linked_edges : AsDrawnOrTurned(linked_edges[k])
    /\ \A k \in DOMAIN paths : \A j \in DOMAIN paths[k] : AsDrawnOrTurned(paths[k][j])

\* a chain of three edges holding an arc that was turned round
C10_Witness ==
    /\ Len(linked_edges) >= 3
    /\ \E k \in DOMAIN linked_edges :
          /\ linked_edges[k].kind = "Arc"
          /\ IsTurned(linked_edges[k], edges[linked_edges[k].id])
          /\ linked_edges[k] # edges[linked_edges[k].id]

\* no edge of the pool has an end on an end of the chain
Maximal == \A k \in DOMAIN unlinked_edges : ~Touches(linked_edges, unlinked_edges[k])

\* a call of create_path is in progress
InCreatePath == pc \in {"first_call", "next_call", "while", "for", "closed_check"}

-----------------------------------------------------------------------------
(* Properties of the nesting analysis and the emission loop *)

\* a lies inside b
Inside(a, b) == b.lo < a.lo /\ a.hi < b.hi

\* the number of other contours that contain p
Depth(p) == Cardinality({j \in DOMAIN polygons : Inside(p, polygons[j])})

\* C2 as claimed: whatever the order of the contours, the level given to each is
\* the number of other contours that contain it.
C2_LevelIsDepth ==
    pc = "sort_levels" =>
        \A k \in DOMAIN sorted_polygons : levels[k] = Depth(sorted_polygons[k])

ThreeNested ==
    /\ Len(polygons) = 3
    /\ \E o, m, i \in DOMAIN polygons :
          Inside(polygons[m], polygons[o]) /\ Inside(polygons[i], polygons[m])

\* C3: three contours nested in one another get the levels 0, 1, 2 from the
\* outermost to the innermost, in every input order, and are offset by +tool/2,
\* -tool/2 and +tool/2.
C3_ConcentricLevels ==
    ThreeNested =>
        /\ pc = "sort_levels" =>
              \A k \in DOMAIN sorted_polygons : levels[k] = Depth(sorted_polygons[k])
        /\ \A c \in DOMAIN offset_calls :
              offset_calls[c].distance2 =
                  IF Depth(offset_calls[c].polygon) = 1 THEN 0 - tool ELSE tool
        /\ pc = "done" =>
              \A d \in 0..2 : \E c \in DOMAIN offset_calls : Depth(offset_calls[c].polygon) = d

\* the three were given innermost first and have all been offset
C3_Witness ==
    /\ ThreeNested
    /\ pc = "done"
    /\ Inside(polygons[1], polygons[2])
    /\ Inside(polygons[2], polygons[3])
    /\ Len(offset_calls) = 3

\* the blocks of the contours whose offset succeeds, in the order of the list
RECURSIVE BlocksOf(_)
BlocksOf(zs) ==
    IF zs = <<>> THEN <<>>
    ELSE LET d2 == (IF zs[1].level % 2 = 0 THEN tool ELSE 0 - tool)
             b == Buffer(zs[1].polygon, d2)
         IN (IF b.is_empty THEN <<>> ELSE GenerateRouteGcode(PolygonToPath(b)))
                \o BlocksOf(Tail(zs))

\* C5: a contour whose offset is infeasible is skipped; the run goes on, the other
\* contours contribute their blocks in level-descending order, between the header
\* and the footer.
C5_InfeasibleSkipped ==
    /\ pc = "offset_loop" =>
          output = GenerateHeader \o BlocksOf(Slice(sorted_polygons, 1, it))
    /\ pc = "done" =>
          /\ output = GenerateHeader \o BlocksOf(sorted_polygons) \o GenerateFooter
          /\ Len(offset_calls) = Len(polygons)
          /\ \A k \in 1..(Len(sorted_polygons) - 1) :
                sorted_polygons[k].level >= sorted_polygons[k + 1].level

CallFailed(c) == Buffer(c.polygon, c.distance2).is_empty

\* a contour was skipped between two contours that were emitted
C5_Witness ==
    /\ pc = "done"
    /\ \E i, j, k \in DOMAIN offset_calls :
          /\ i < j /\ j < k
          /\ ~CallFailed(offset_calls[i])
          /\ CallFailed(offset_calls[j])
          /\ ~CallFailed(offset_calls[k])

-----------------------------------------------------------------------------
(* Properties of the edge extractor *)

LacksField(cmd) == "X" \notin DOMAIN cmd \/ "Y" \notin DOMAIN cmd \/ "D" \notin DOMAIN cmd
BadPen(cmd) == "D" \in DOMAIN cmd /\ cmd.D # "01" /\ cmd.D # "02"
BadCode(cmd) == cmd.code # "G01" /\ cmd.code # "G02" /\ cmd.code # "G03"
IsCut(cmd) == "D" \in DOMAIN cmd /\ cmd.D = "01"

\* C4 as claimed: no stream with a command that lacks a field or has an unknown
\* pen or interpolation code, cut or move, is extracted.
C4_MalformedNeverExtracted ==
    pc = "extracted" =>
        \A k \in DOMAIN commands :
            ~(LacksField(commands[k]) \/ BadPen(commands[k]) \/ BadCode(commands[k]))

\* C4 as amended: no stream with a command that lacks a field or has an unknown
\* pen code, or with a cut that has an unknown interpolation code, is extracted;
\* a failed run hands over no edge list; the interpolation code of a move is not
\* looked at, so a stream fails only for one of the reasons above.
C4_MalformedCutNeverExtracted ==
    /\ pc = "extracted" =>
          \A k \in DOMAIN commands :
              ~(LacksField(commands[k]) \/ BadPen(commands[k])
                    \/ (IsCut(commands[k]) /\ BadCode(commands[k])))
    /\ pc = "failed" =>
          /\ edges = <<>>
          /\ raised # "none"
          /\ LET cmd == commands[it + 1]
             IN LacksField(cmd) \/ BadPen(cmd) \/ (IsCut(cmd) /\ BadCode(cmd))

\* a stream with a move that carries an unknown interpolation code was extracted,
\* and a cut after the move made an edge
C4_Witness ==
    /\ pc = "extracted"
    /\ Len(edges) >= 1
    /\ \E k \in DOMAIN commands : commands[k].D = "02" /\ BadCode(commands[k])

-----------------------------------------------------------------------------
(* Properties of the toolpath emitter *)

IsXYRapid(r) == r.g = "G00" /\ "X" \in DOMAIN r
SetsHeight(r) == "Z" \in DOMAIN r

\* the height the tool is at before record k
HeightBefore(out, k) ==
    LET j == CHOOSE j \in 1..(k - 1) :
                 SetsHeight(out[j]) /\ \A m \in (j + 1)..(k - 1) : ~SetsHeight(out[m])
    IN out[j].Z

\* the record the claim expects for an edge
ExpectedRecord(e) ==
    IF e.kind = "Line"
    THEN [g |-> "G01", X |-> e.end[1], Y |-> e.end[2]]
    ELSE [g |-> IF e.clockwise THEN "G02" ELSE "G03", X |-> e.end[1], Y |-> e.end[2],
          I |-> e.center[1] - e.start[1], J |-> e.center[2] - e.start[2]]

\* C6: retract, rapid to the start of the first edge, rapid to the start height,
\* plunge, one record per edge in order (target the end of the edge, I/J the
\* center minus the start of the edge), retract; every XY rapid is made at the
\* retract height.
C6_RouteRecords ==
    /\ pc = "route_done" =>
          /\ Len(output) = Len(edges) + 5
          /\ output[1] = [g |-> "G00", Z |-> ArgsRetract]
          /\ output[2] = [g |-> "G00", X |-> edges[1].start[1], Y |-> edges[1].start[2]]
          /\ output[3] = [g |-> "G00", Z |-> ArgsStart]
          /\ output[4] = [g |-> "G01", Z |-> ArgsEnd]
          /\ \A i \in 1..Len(edges) : output[4 + i] = ExpectedRecord(edges[i])
          /\ output[Len(edges) + 5] = [g |-> "G00", Z |-> ArgsRetract]
    /\ pc \in {"route_loop", "route_done"} =>
          \A k \in DOMAIN output :
              IsXYRapid(output[k]) => (k > 1 /\ HeightBefore(output, k) = ArgsRetract)

\* a loop of a straight cut and both kinds of arc has been emitted
C6_Witness ==
    /\ pc = "route_done"
    /\ Len(edges) = 3
    /\ \E i, j, k \in DOMAIN edges :
          /\ edges[i].kind = "Line"
          /\ edges[j].kind = "Arc" /\ edges[j].clockwise
          /\ edges[k].kind = "Arc" /\ ~edges[k].clockwise

-----------------------------------------------------------------------------
(* Properties of the entry-point reordering *)

\* the squared distance from the start of the k-th edge of the loop to the entry
StartDist(k) ==
    LET p == paths[1][k].start
    IN (p[1] - entry[1]) * (p[1] - entry[1]) + (p[2] - entry[2]) * (p[2] - entry[2])

\* the lowest index among the edges whose start is nearest to the entry
Nearest ==
    CHOOSE s \in DOMAIN paths[1] :
        /\ \A k \in DOMAIN paths[1] : StartDist(s) <= StartDist(k)
        /\ \A k \in 1..(s - 1) : StartDist(k) > StartDist(s)

\* C7: the reordered loop is the rotation of the loop that begins at the
\* lowest-index edge whose start is nearest to the entry point; nothing is
\* reversed, and the rotated loop is still chained and closed.
C7_RotationFromNearest ==
    pc = "reordered" =>
        LET loop == paths[1]
            n == Len(loop)
        IN /\ Len(edges) = n
           /\ \A k \in 1..n : edges[k] = loop[((Nearest - 1 + k - 1) % n) + 1]
           /\ Chained(edges)
           /\ EndsMeet(edges)

\* a loop of four edges was rotated to begin at its third edge, which ties with
\* a later edge for the nearest start
C7_Witness ==
    /\ pc = "reordered"
    /\ Len(edges) = 4
    /\ Nearest = 3
    /\ edges[1] = paths[1][3]
    /\ StartDist(4) = StartDist(3)
    /\ paths[1][4].start # paths[1][3].start

-----------------------------------------------------------------------------
(* Properties of the arc segmenter *)

\* each segment ends where the next one starts
SegmentsChained == \A i \in 1..(Len(lines) - 1) : lines[i].end = lines[i + 1].start

\* C12 as claimed: approximate_arc(arc, n) returns exactly n Line segments
\* (20 with the default), each segment's end being the next segment's start.
C12_ReturnsNumSegments ==
    pc = "arc_done" =>
        /\ Len(lines) = num_segments
        /\ \A i \in DOMAIN lines : lines[i].kind = "Line"
        /\ SegmentsChained

\* what the code returns: one segment fewer than num_segments, since
\* num_segments is the number of sampled points
ReturnsOneFewer ==
    pc = "arc_done" =>
        /\ Len(points) = num_segments
        /\ Len(lines) = num_segments - 1
        /\ SegmentsChained

\* the sweep that is interpolated over, once the end angle has been corrected
Sweep == end_angle - start_angle
SweepCorrected == pc \in {"linspace", "sample", "arc_done"}

\* C13 as claimed: the sweep is negative for a clockwise arc and positive for
\* a counter-clockwise one, and at most one full turn in magnitude.
C13_SweepSigned ==
    SweepCorrected =>
        /\ arc.clockwise => Sweep < 0
        /\ ~arc.clockwise => Sweep > 0
        /\ Sweep <= FullTurn /\ 0 - Sweep <= FullTurn

\* what the code guarantees: the sweep is never on the wrong side and stays
\* below one full turn; it is zero when the raw angles are equal
SweepNeverWrongSide ==
    SweepCorrected =>
        /\ arc.clockwise => Sweep <= 0
        /\ ~arc.clockwise => Sweep >= 0
        /\ Sweep < FullTurn /\ 0 - Sweep < FullTurn
        /\ Sweep = 0 <=>
              NpAngle(<<arc.start[1] - arc.center[1], arc.start[2] - arc.center[2]>>)
                 = NpAngle(<<arc.end[1] - arc.center[1], arc.end[2] - arc.center[2]>>)

====
